---- MODULE Spec2Model ----
(***************************************************************************)
(* Model of src/evaluation.py: class HedgeFund.                            *)
(*                                                                         *)
(* Dates are week numbers (integers).  Floating-point columns are exact    *)
(* rationals <<numerator, denominator>> in lowest terms with a positive    *)
(* denominator; NaN is <<0, 0>>.  A pandas table is a sequence of records  *)
(* (one record per row, in row order).                                     *)
(***************************************************************************)
EXTENDS Integers, Sequences, FiniteSets, TLC

(***************************************************************************)
(* Rational arithmetic standing in for float64 columns                     *)
(***************************************************************************)
NaN == <<0, 0>>

IsNaN(x) == x[2] = 0

Abs(i) == IF i < 0 THEN -i ELSE i

RECURSIVE GCD(_, _)
GCD(a, b) == IF b = 0 THEN a ELSE GCD(b, a % b)

\* lowest terms, positive denominator; a zero denominator is NaN
Norm(n, d) ==
    IF d = 0 THEN NaN
    ELSE LET g == GCD(Abs(n), Abs(d))
             s == IF d < 0 THEN -1 ELSE 1
         IN  <<s * (n \div g), s * (d \div g)>>

Rat(i) == <<i, 1>>

RatAdd(x, y) ==
    IF IsNaN(x) \/ IsNaN(y) THEN NaN
    ELSE LET g == GCD(x[2], y[2])
         IN  Norm(x[1] * (y[2] \div g) + y[1] * (x[2] \div g), (x[2] \div g) * y[2])

RatNeg(x) == IF IsNaN(x) THEN NaN ELSE <<-x[1], x[2]>>

RatSub(x, y) == RatAdd(x, RatNeg(y))

\* cross-cancel before multiplying
RatMul(x, y) ==
    IF IsNaN(x) \/ IsNaN(y) THEN NaN
    ELSE LET g1 == GCD(Abs(x[1]), y[2])
             g2 == GCD(Abs(y[1]), x[2])
         IN  Norm((x[1] \div g1) * (y[1] \div g2), (x[2] \div g2) * (y[2] \div g1))

\* float division: 0/0 is NaN (a non-zero numerator over 0 would be inf and
\* does not arise: disclosed values are >= 0)
RatDiv(x, y) ==
    IF IsNaN(x) \/ IsNaN(y) \/ y[1] = 0 THEN NaN
    ELSE RatMul(x, Norm(y[2], y[1]))

RatGt0(x) == ~IsNaN(x) /\ x[1] > 0

\* nearest integer to n/d (d > 0), halves to the even neighbour
RoundHalfEven(n, d) ==
    LET q == n \div d
        r == n % d
    IN  IF 2 * r < d THEN q
        ELSE IF 2 * r > d THEN q + 1
        ELSE IF q % 2 = 0 THEN q ELSE q + 1

\* DataFrame.round(2) on one float: NaN stays NaN
Round2(x) ==
    IF IsNaN(x) THEN NaN
    ELSE LET q == x[1] \div x[2]
             r == x[1] % x[2]
         IN  Norm(q * 100 + RoundHalfEven(r * 100, x[2]), 100)

\* DataFrame.fillna(0) on one float
FillNa0(x) == IF IsNaN(x) THEN Rat(0) ELSE x

(***************************************************************************)
(* Helpers on tables (sequences of row records)                            *)
(***************************************************************************)
SetMin(S) == CHOOSE x \in S : \A y \in S : x <= y

SetMax(S) == CHOOSE x \in S : \A y \in S : x >= y

\* the elements of a set of integers in ascending order
RECURSIVE SortAsc(_)
SortAsc(S) == IF S = {} THEN <<>> ELSE <<SetMin(S)>> \o SortAsc(S \ {SetMin(S)})

\* pd.concat of a list of row sequences, in list order
RECURSIVE Concat(_)
Concat(ls) == IF ls = <<>> THEN <<>> ELSE Head(ls) \o Concat(Tail(ls))

Range(s) == {s[i] : i \in DOMAIN s}

\* Series.sum(): NaN entries are skipped, the empty sum is 0
RECURSIVE SumSkipNa(_)
SumSkipNa(s) ==
    IF s = <<>> THEN Rat(0)
    ELSE IF IsNaN(Head(s)) THEN SumSkipNa(Tail(s))
    ELSE RatAdd(Head(s), SumSkipNa(Tail(s)))

(***************************************************************************)
(* The disclosure store: the CSV files of self.directory.  A file is       *)
(* [date, rows]; a raw row is [sym, cl, shares, value000].                 *)
(***************************************************************************)
n_weeks == 1

WeeksPerQuarter == 13

NoSym == "nan"

\* tickers in the order sort_values gives them
TickerOrder == <<"AAA", "BBB">>

Tickers == Range(TickerOrder)

Benchmark == "VOO"

\* str.contains('EXP|UNIT', regex=True, case=False) on the class codes used
ExpUnitClasses == {"*W EXP 01/01/2027", "Unit 99/99/9999"}

ContainsExpOrUnit(cl) == cl \in ExpUnitClasses

Quarter(date) == date \div WeeksPerQuarter

PositionsColumns ==
    {"date", "ticker", "class", "shares", "value ($000)", "sell_date", "change", "value", "quarter"}

EmptyFrame == [columns |-> {}, rows |-> <<>>]

\* pd.concat, dropna(subset='ticker'), sort_values(['date', 'ticker'])
SortedRows(store) ==
    LET FileAt(d) == CHOOSE f \in store : f.date = d
        Tagged(d) == [i \in DOMAIN FileAt(d).rows |->
                        [date |-> d, ticker |-> FileAt(d).rows[i].sym,
                         class |-> FileAt(d).rows[i].cl,
                         shares |-> FileAt(d).rows[i].shares,
                         value000 |-> FileAt(d).rows[i].value000]]
        HasTicker(r) == r.ticker # NoSym
        OfDate(d) ==
            LET kept == SelectSeq(Tagged(d), HasTicker)
                OfTicker(t) == LET Is(r) == r.ticker = t IN SelectSeq(kept, Is)
            IN  Concat([k \in DOMAIN TickerOrder |-> OfTicker(TickerOrder[k])])
    IN  LET dates == SortAsc({f.date : f \in store})
        IN  Concat([k \in DOMAIN dates |-> OfDate(dates[k])])

\* positions[~positions['class'].str.contains('EXP|UNIT', ...)]
DropExpiring(rows) ==
    LET Keep(r) == ~ContainsExpOrUnit(r.class) IN SelectSeq(rows, Keep)

\* groupby('ticker')['shares'].diff(): against the previous row of the ticker
ShareDiff(rows, i) ==
    LET prev == {j \in 1..(i - 1) : rows[j].ticker = rows[i].ticker}
    IN  IF prev = {} THEN NaN
        ELSE Rat(rows[i].shares - rows[SetMax(prev)].shares)

\* ShareChange without line 64: the seed rows keep the filled change
ShareChangeSeedKept(rows, i) ==
    LET diff == ShareDiff(rows, i)
    IN  IF IsNaN(diff) THEN Rat(rows[i].shares) ELSE diff

\* diff, fillna(shares), then NaN on the rows of the earliest date
ShareChange(rows, i) ==
    LET diff == ShareDiff(rows, i)
        filled == IF IsNaN(diff) THEN Rat(rows[i].shares) ELSE diff
        earliest == SetMin({rows[j].date : j \in DOMAIN rows})
    IN  IF rows[i].date = earliest THEN NaN ELSE filled

\* the table get_positions stores in self.positions
PositionsTable(store) ==
    LET rows == DropExpiring(SortedRows(store))
    IN  [columns |-> PositionsColumns,
         rows |-> [i \in DOMAIN rows |->
                    [date |-> rows[i].date,
                     ticker |-> rows[i].ticker,
                     class |-> rows[i].class,
                     shares |-> rows[i].shares,
                     sell_date |-> rows[i].date + n_weeks,
                     change |-> ShareChange(rows, i),
                     value |-> rows[i].value000 * 1000,
                     quarter |-> Quarter(rows[i].date)]]]

(***************************************************************************)
(* The price source (yfinance).  A market names, for every symbol, the     *)
(* series the source holds for it: "none" (no column in the answer),       *)
(* "nan" (a column without a single quote) or a priced series.             *)
(***************************************************************************)
ObsDates == {13, 14, 25, 26}

\* the quotes of the priced series, by date
SeriesPrice(series, d) ==
    CASE series = "s1" -> (CASE d = 13 -> Rat(250000) [] d = 14 -> Rat(257510)
                             [] d = 25 -> Rat(283261) [] OTHER -> Rat(309012))
      [] series = "s2" -> (CASE d = 13 -> Rat(1000) [] d = 14 -> Rat(1100)
                             [] d = 25 -> Rat(1078) [] OTHER -> Rat(1232))
      [] series = "s3" -> (CASE d = 13 -> Rat(500000) [] d = 14 -> Rat(510030)
                             [] d = 25 -> Rat(561033) [] OTHER -> Rat(510030))
      [] OTHER -> NaN

\* yf.download(symbols, start, end, interval='1wk')['Adj Close']: the dates
\* in [start, end) and one column per symbol the source answers for
Download(mkt, symbols, start, end) ==
    [index |-> SortAsc({d \in ObsDates : start <= d /\ d < end}),
     columns |-> {t \in symbols : mkt[t] # "none"},
     series |-> mkt]

\* price.pct_change(n_weeks) * 100 at row k of the column of symbol t
PctChange(price, t, k) ==
    IF k <= n_weeks THEN NaN
    ELSE LET now == SeriesPrice(price.series[t], price.index[k])
             before == SeriesPrice(price.series[t], price.index[k - n_weeks])
         IN  RatMul(RatSub(RatDiv(now, before), Rat(1)), Rat(100))

\* change > 0 (NaN compares false); unique tickers
BuyTickers(positions) ==
    {positions.rows[i].ticker : i \in {j \in DOMAIN positions.rows : RatGt0(positions.rows[j].change)}}

\* positions['date'].unique(), in order of appearance (the table is sorted)
UniqueDates(positions) == SortAsc({positions.rows[i].date : i \in DOMAIN positions.rows})

\* reset_index().melt(...).sort_values(['sell_date', 'ticker'])
PriceChangeTable(price) ==
    LET OfDate(k) ==
            LET OfTicker(t) ==
                    IF t \in price.columns
                    THEN <<[sell_date |-> price.index[k], ticker |-> t,
                            price_change |-> PctChange(price, t, k)]>>
                    ELSE <<>>
            IN  Concat([j \in DOMAIN TickerOrder |-> OfTicker(TickerOrder[j])])
    IN  [columns |-> {"sell_date", "ticker", "price_change"},
         rows |-> Concat([k \in DOMAIN price.index |-> OfDate(k)])]

Sp500ChangeTable(price) ==
    [columns |-> {"sell_date", Benchmark},
     rows |-> [k \in DOMAIN price.index |->
                [sell_date |-> price.index[k], VOO |-> PctChange(price, Benchmark, k)]]]

\* start and end of the query window of get_prices
QueryStart(positions) == UniqueDates(positions)[2]

QueryEnd(positions) == SetMax({positions.rows[i].sell_date : i \in DOMAIN positions.rows})

(***************************************************************************)
(* create_portfolio                                                        *)
(***************************************************************************)
\* merge_asof(direction='nearest'): index of the row of `right` among
\* `cands` nearest to `date`; the earlier one on a tie; 0 without candidate
Nearest(right, cands, date) ==
    IF cands = {} THEN 0
    ELSE LET Dist(j) == Abs(right[j].sell_date - date)
             best == {j \in cands : \A k \in cands : Dist(j) <= Dist(k)}
         IN  CHOOSE j \in best : \A k \in best :
                 right[j].sell_date < right[k].sell_date
                 \/ (right[j].sell_date = right[k].sell_date /\ j >= k)

\* the price_change column merge_asof(..., by='ticker') gives row i
MergedPriceChange(positions, price_change, i) ==
    LET right == price_change.rows
        cands == {j \in DOMAIN right : right[j].ticker = positions.rows[i].ticker}
        j == Nearest(right, cands, positions.rows[i].sell_date)
    IN  IF j = 0 THEN NaN ELSE right[j].price_change

\* the rows of the merged table: every row of positions is kept
MergedRows(positions, price_change) == DOMAIN positions.rows

\* Weight without the groupby: value over the total of the whole table
WeightUngrouped(positions, kept, i) ==
    LET total == SumSkipNa([k \in 1..Len(positions.rows) |->
                              IF k \in kept THEN Rat(positions.rows[k].value) ELSE NaN])
    IN  RatDiv(Rat(positions.rows[i].value), total)

\* groupby('quarter')['value'].transform(lambda x: x / x.sum())
Weight(positions, kept, i) ==
    LET group == {j \in kept : positions.rows[j].quarter = positions.rows[i].quarter}
        total == SumSkipNa([k \in 1..Len(positions.rows) |->
                              IF k \in group THEN Rat(positions.rows[k].value) ELSE NaN])
    IN  RatDiv(Rat(positions.rows[i].value), total)

PortfolioTable(positions, price_change) ==
    LET kept == SortAsc(MergedRows(positions, price_change))
        Row(k) ==
            LET i == kept[k]
                pc == MergedPriceChange(positions, price_change, i)
                w == Weight(positions, Range(kept), i)
            IN  [date |-> positions.rows[i].date,
                 ticker |-> positions.rows[i].ticker,
                 shares |-> positions.rows[i].shares,
                 change |-> positions.rows[i].change,
                 value |-> positions.rows[i].value,
                 sell_date |-> positions.rows[i].sell_date,
                 quarter |-> positions.rows[i].quarter,
                 price_change |-> pc,
                 weight |-> w,
                 performance |-> RatMul(pc, w)]
    IN  [k \in DOMAIN kept |-> Row(k)]

\* the index label whose performance create_portfolio overwrites with NaN
SeedLabel == 0

\* PerformanceTable without line 125: no row is overwritten with NaN
PerformanceTableSeedKept(portfolio) ==
    LET dates == SortAsc({portfolio[i].sell_date : i \in DOMAIN portfolio})
        Group(d) == {i \in DOMAIN portfolio : portfolio[i].sell_date = d}
    IN  [k \in DOMAIN dates |->
            [quarter |-> portfolio[CHOOSE i \in Group(dates[k]) : TRUE].quarter,
             sell_date |-> dates[k],
             performance |-> SumSkipNa([i \in DOMAIN portfolio |->
                               IF i \in Group(dates[k]) THEN portfolio[i].performance ELSE NaN])]]

\* groupby(['quarter', 'sell_date'])['performance'].sum(), sorted by
\* sell_date, reset_index(drop=True); then .loc[0, 'performance'] = NaN
PerformanceTable(portfolio) ==
    LET dates == SortAsc({portfolio[i].sell_date : i \in DOMAIN portfolio})
        Group(d) == {i \in DOMAIN portfolio : portfolio[i].sell_date = d}
        Sum(d) == SumSkipNa([i \in DOMAIN portfolio |->
                              IF i \in Group(d) THEN portfolio[i].performance ELSE NaN])
    IN  [k \in DOMAIN dates |->
            [quarter |-> portfolio[CHOOSE i \in Group(dates[k]) : TRUE].quarter,
             sell_date |-> dates[k],
             performance |-> IF k - 1 = SeedLabel THEN NaN ELSE Sum(dates[k])]]

(***************************************************************************)
(* calculate_returns and plot_growth                                       *)
(***************************************************************************)
DefaultApproach == "simple"

\* self.performance[approach] = performance
WithApproach(dict, approach, table) ==
    [a \in DOMAIN dict \cup {approach} |-> IF a = approach THEN table ELSE dict[a]]

\* the value of column `col` of table `rows` at sell_date d, NaN where the
\* table has no row for d (pd.concat(axis=1) of tables indexed by sell_date)
AtDate(rows, col, d) ==
    LET at == {i \in DOMAIN rows : rows[i].sell_date = d}
    IN  IF at = {} THEN NaN ELSE rows[CHOOSE i \in at : TRUE][col]

\* the table calculate_returns merges with the benchmark: the single
\* approach's own table, or one column per approach on the union of dates
CombinedPerformance(perf) ==
    IF Cardinality(DOMAIN perf) > 1
    THEN LET dates == SortAsc(UNION {{perf[a][i].sell_date : i \in DOMAIN perf[a]} : a \in DOMAIN perf})
         IN  [columns |-> {"sell_date"} \cup DOMAIN perf,
              rows |-> [k \in DOMAIN dates |->
                          [c \in {"sell_date"} \cup DOMAIN perf |->
                              IF c = "sell_date" THEN dates[k]
                              ELSE AtDate(perf[c], "performance", dates[k])]]]
    ELSE LET only == perf[CHOOSE a \in DOMAIN perf : TRUE]
         IN  [columns |-> {"quarter", "sell_date", "performance"}, rows |-> only]

\* merge_asof(performance, sp500_change, on='sell_date', direction='nearest')
NearestBenchmark(sp500, date) ==
    LET j == Nearest(sp500.rows, DOMAIN sp500.rows, date)
    IN  IF j = 0 THEN NaN ELSE sp500.rows[j].VOO

\* if 'performance' in comparison.columns
HasPerformanceColumn(columns) == "performance" \in columns

\* Outperformance taken from the columns after they were rounded
OutperformanceOfRounded(perf, voo) == RatSub(Round2(perf), Round2(voo))

\* the outperformance cell of a merged row, as stored after round(2)
Outperformance(perf, voo) == Round2(RatSub(perf, voo))

NonNumeric == {"quarter", "sell_date"}

ComparisonTable(perf, sp500) ==
    LET left == CombinedPerformance(perf)
        cols == left.columns \cup {Benchmark}
                  \cup (IF HasPerformanceColumn(left.columns) THEN {"outperformance"} ELSE {})
        Cell(k, c) ==
            LET voo == NearestBenchmark(sp500, left.rows[k].sell_date)
            IN  IF c \in NonNumeric THEN left.rows[k][c]
                ELSE IF c = Benchmark THEN Round2(voo)
                ELSE IF c = "outperformance" THEN Outperformance(left.rows[k].performance, voo)
                ELSE Round2(left.rows[k][c])
    IN  [columns |-> cols,
         rows |-> [k \in DOMAIN left.rows |-> [c \in cols |-> Cell(k, c)]]]

\* the columns plot_growth compounds
GrowthColumns(columns) == columns \ {"quarter", "sell_date", "outperformance"}

\* Factor on the table as stored, without fillna(0)
FactorOfStored(x) == RatAdd(RatDiv(x, Rat(100)), Rat(1))

\* growth[approaches].div(100) + 1, on the table after fillna(0)
Factor(x) == RatAdd(RatDiv(FillNa0(x), Rat(100)), Rat(1))

\* cumprod() down column c, rows 1..k
RECURSIVE CumProd(_, _, _)
CumProd(rows, c, k) ==
    IF k = 0 THEN Rat(1) ELSE RatMul(CumProd(rows, c, k - 1), Factor(rows[k][c]))

\* one compounded cell: cumprod() * principal, then round(2)
GrowthCell(rows, c, k, principal) == Round2(RatMul(CumProd(rows, c, k), Rat(principal)))

GrowthTable(cmp, principal) ==
    [columns |-> cmp.columns,
     rows |-> [k \in DOMAIN cmp.rows |->
                [c \in cmp.columns |->
                    IF c \in NonNumeric THEN cmp.rows[k][c]
                    ELSE IF c \in GrowthColumns(cmp.columns)
                         THEN GrowthCell(cmp.rows, c, k, principal)
                    ELSE Round2(FillNa0(cmp.rows[k][c]))]]]

(***************************************************************************)
(* The inputs: the files a directory may hold, the markets, the approach   *)
(* names and the principals                                                *)
(***************************************************************************)
RowA100 == [sym |-> "AAA", cl |-> "COM", shares |-> 100, value000 |-> 10]

RowA150 == [sym |-> "AAA", cl |-> "COM", shares |-> 150, value000 |-> 10]

RowB50 == [sym |-> "BBB", cl |-> "COM", shares |-> 50, value000 |-> 5]

\* a position too small to show in thousands
RowB0 == [sym |-> "BBB", cl |-> "COM", shares |-> 50, value000 |-> 0]

RowWarrant == [sym |-> "BBB", cl |-> "*W EXP 01/01/2027", shares |-> 10, value000 |-> 1]

RowNoSym == [sym |-> NoSym, cl |-> "COM", shares |-> 1, value000 |-> 1]

\* the filing dates a directory may cover
DateSets == { {}, {12}, {12, 13}, {12, 13, 25}, {12, 13, 26} }

\* the files that may be filed at a date
FileOptions(date) ==
    IF date = 12 THEN { <<RowA100>>, <<RowWarrant>> }
    ELSE IF date = 13 THEN { <<RowB50, RowA150>>, <<RowB0, RowWarrant, RowNoSym>> }
    ELSE { <<RowA100>>, <<RowB50, RowA150>> }

Markets ==
    { [AAA |-> a, BBB |-> b, VOO |-> "s3"] : a \in {"s1", "none"}, b \in {"s2", "nan"} }

Approaches == {"simple", "performance"}

Principals == {10000, 100}

(***************************************************************************)
(* State: the files of self.directory, the price source, the fields of a   *)
(* HedgeFund object, and what the last call gave its caller                *)
(***************************************************************************)
VARIABLES directory, market, quarters, positions, price_change, sp500_change,
          comparison, portfolios, performance, result

vars == <<directory, market, quarters, positions, price_change, sp500_change,
          comparison, portfolios, performance, result>>

object == <<quarters, positions, price_change, sp500_change, comparison,
            portfolios, performance>>

NoDict == [a \in {} |-> EmptyFrame]

\* the outcome of a call: its argument (the approach, the principal), the
\* exception it raised ("none" when it returned), the table it returned
\* (evaluate) or handed to the plot (plot_growth)
Outcome(call, arg, exc, table) ==
    [call |-> call, arg |-> arg, raised |-> exc, value |-> table]

Init ==
    /\ directory = {}
    /\ market \in Markets
    /\ quarters = 0
    /\ positions = EmptyFrame
    /\ price_change = EmptyFrame
    /\ sp500_change = EmptyFrame
    /\ comparison = EmptyFrame
    /\ portfolios = NoDict
    /\ performance = NoDict
    /\ result = Outcome("__init__", "", "none", EmptyFrame)

\* a new disclosure file appears in the directory
new_filing(date, rows) ==
    /\ \A f \in directory : f.date < date
    /\ {f.date : f \in directory} \cup {date} \in DateSets
    /\ directory' = directory \cup {[date |-> date, rows |-> rows]}
    /\ UNCHANGED <<market, object, result>>

\* ConcatRaises for a concat that answers an empty list with an empty table
ConcatAcceptsNone(store) == FALSE

\* pd.concat of an empty list raises ValueError
ConcatRaises(store) == store = {}

\* positions['date'].unique()[1] raises IndexError
SecondDateRaises(pos) == Len(UniqueDates(pos)) < 2

PriceAnswer(pos, mkt) ==
    Download(mkt, BuyTickers(pos), QueryStart(pos), QueryEnd(pos))

BenchmarkAnswer(pos, mkt) ==
    Download(mkt, {Benchmark}, QueryStart(pos), QueryEnd(pos))

get_positions ==
    /\ quarters' = Cardinality(directory) - 1
    /\ IF ConcatRaises(directory)
       THEN /\ result' = Outcome("get_positions", "", "ValueError", EmptyFrame)
            /\ UNCHANGED positions
       ELSE /\ result' = Outcome("get_positions", "", "none", EmptyFrame)
            /\ positions' = PositionsTable(directory)
    /\ UNCHANGED <<directory, market, price_change, sp500_change, comparison,
                   portfolios, performance>>

get_prices ==
    /\ positions.columns # {}
    /\ IF SecondDateRaises(positions)
       THEN /\ result' = Outcome("get_prices", "", "IndexError", EmptyFrame)
            /\ UNCHANGED <<price_change, sp500_change>>
       ELSE /\ result' = Outcome("get_prices", "", "none", EmptyFrame)
            /\ price_change' = PriceChangeTable(PriceAnswer(positions, market))
            /\ sp500_change' = Sp500ChangeTable(BenchmarkAnswer(positions, market))
    /\ UNCHANGED <<directory, market, quarters, positions, comparison,
                   portfolios, performance>>

create_portfolio(approach) ==
    /\ positions.rows # <<>>
    /\ price_change.columns # {}
    /\ LET portfolio == PortfolioTable(positions, price_change)
       IN  /\ portfolios' = WithApproach(portfolios, approach, portfolio)
           /\ performance' = WithApproach(performance, approach, PerformanceTable(portfolio))
    /\ result' = Outcome("create_portfolio", approach, "none", EmptyFrame)
    /\ UNCHANGED <<directory, market, quarters, positions, price_change, sp500_change,
                   comparison>>

\* if not self.performance: self.create_portfolio()
NeedsDefault(perf) == DOMAIN perf = {}

\* self.portfolios and self.performance as calculate_returns leaves them
PortfoliosAfter(ports, perf, pos, pc) ==
    IF NeedsDefault(perf)
    THEN WithApproach(ports, DefaultApproach, PortfolioTable(pos, pc))
    ELSE ports

PerformanceAfter(perf, pos, pc) ==
    IF NeedsDefault(perf)
    THEN WithApproach(perf, DefaultApproach, PerformanceTable(PortfolioTable(pos, pc)))
    ELSE perf

calculate_returns ==
    /\ sp500_change.columns # {}
    /\ NeedsDefault(performance) => positions.rows # <<>> /\ price_change.columns # {}
    /\ portfolios' = PortfoliosAfter(portfolios, performance, positions, price_change)
    /\ performance' = PerformanceAfter(performance, positions, price_change)
    /\ comparison' = ComparisonTable(performance', sp500_change)
    /\ result' = Outcome("calculate_returns", "", "none", EmptyFrame)
    /\ UNCHANGED <<directory, market, quarters, positions, price_change, sp500_change>>

\* get_positions(); get_prices(); calculate_returns(); return self.comparison
evaluate ==
    /\ quarters' = Cardinality(directory) - 1
    /\ UNCHANGED <<directory, market>>
    /\ IF ConcatRaises(directory)
       THEN /\ result' = Outcome("evaluate", "", "ValueError", EmptyFrame)
            /\ UNCHANGED <<positions, price_change, sp500_change, comparison,
                           portfolios, performance>>
       ELSE /\ positions' = PositionsTable(directory)
            /\ IF SecondDateRaises(positions')
               THEN /\ result' = Outcome("evaluate", "", "IndexError", EmptyFrame)
                    /\ UNCHANGED <<price_change, sp500_change, comparison,
                                   portfolios, performance>>
               ELSE /\ price_change' = PriceChangeTable(PriceAnswer(positions', market))
                    /\ sp500_change' = Sp500ChangeTable(BenchmarkAnswer(positions', market))
                    /\ portfolios' = PortfoliosAfter(portfolios, performance,
                                                     positions', price_change')
                    /\ performance' = PerformanceAfter(performance, positions', price_change')
                    /\ comparison' = ComparisonTable(performance', sp500_change')
                    /\ result' = Outcome("evaluate", "", "none", comparison')

\* growth = self.comparison.fillna(0) is a new table: self.comparison stays
ComparisonAfterPlot(cmp) == cmp

plot_growth(principal) ==
    /\ comparison.columns # {}
    /\ comparison' = ComparisonAfterPlot(comparison)
    /\ result' = Outcome("plot_growth", principal, "none", GrowthTable(comparison, principal))
    /\ UNCHANGED <<directory, market, quarters, positions, price_change, sp500_change,
                   portfolios, performance>>

Next ==
    \/ \E date \in UNION DateSets : \E rows \in FileOptions(date) : new_filing(date, rows)
    \/ get_positions
    \/ get_prices
    \/ \E approach \in Approaches : create_portfolio(approach)
    \/ calculate_returns
    \/ evaluate
    \/ \E principal \in Principals : plot_growth(principal)

Spec == Init /\ [][Next]_vars

(***************************************************************************)
(* Properties                                                              *)
(***************************************************************************)
Returned(call) == result.call = call /\ result.raised = "none"

PositionDates == {positions.rows[i].date : i \in DOMAIN positions.rows}

\* the filing date just before d among the dates of the positions table
PrecedingDate(d) == SetMax({e \in PositionDates : e < d})

\* the shares of ticker t disclosed at date d, 0 when t is not held then
SharesAt(t, d) ==
    LET at == {j \in DOMAIN positions.rows :
                 positions.rows[j].ticker = t /\ positions.rows[j].date = d}
    IN  IF at = {} THEN 0 ELSE positions.rows[CHOOSE j \in at : TRUE].shares

HeldBefore(t, d) ==
    \E j \in DOMAIN positions.rows : positions.rows[j].ticker = t /\ positions.rows[j].date < d

\* C3: after get_positions, a row of ticker t at a date d later than the
\* earliest has change = shares(t, d) - shares of t at the filing date just
\* before d when t has an earlier row, and change = shares(t, d) when the
\* row is the first appearance of t.
C3_ChangeAgainstPrecedingDate ==
    \A i \in DOMAIN positions.rows :
        LET r == positions.rows[i]
        IN  r.date # SetMin(PositionDates) =>
                r.change = IF HeldBefore(r.ticker, r.date)
                           THEN Rat(r.shares - SharesAt(r.ticker, PrecedingDate(r.date)))
                           ELSE Rat(r.shares)

\* C4: every row of the earliest filing date has an undefined change, also
\* when its ticker is disclosed again later, and every ticker whose prices
\* get_prices asks for has a positive change in a row of a later date.
C4_SeedChangeUndefined ==
    /\ \A i \in DOMAIN positions.rows :
          positions.rows[i].date = SetMin(PositionDates) => IsNaN(positions.rows[i].change)
    /\ (Returned("get_prices") \/ Returned("evaluate")) =>
          \A k \in DOMAIN price_change.rows :
              \E i \in DOMAIN positions.rows :
                  /\ positions.rows[i].ticker = price_change.rows[k].ticker
                  /\ positions.rows[i].date # SetMin(PositionDates)
                  /\ RatGt0(positions.rows[i].change)

\* a seed row of a ticker that is disclosed again later, with a buy found
C4_Witness ==
    /\ Returned("get_prices")
    /\ price_change.rows # <<>>
    /\ \E i, j \in DOMAIN positions.rows :
          /\ positions.rows[i].date = SetMin(PositionDates)
          /\ positions.rows[j].ticker = positions.rows[i].ticker
          /\ positions.rows[j].date > positions.rows[i].date
          /\ positions.rows[i].shares > 0

\* the rows of a portfolio table that belong to period q
RowsOfPeriod(portfolio, q) == {i \in DOMAIN portfolio : portfolio[i].quarter = q}

Periods(portfolio) == {portfolio[i].quarter : i \in DOMAIN portfolio}

RECURSIVE SumOver(_, _)
SumOver(F(_), S) ==
    IF S = {} THEN Rat(0)
    ELSE LET x == CHOOSE y \in S : TRUE IN RatAdd(F(x), SumOver(F, S \ {x}))

\* C1: in every portfolio table, in every period whose disclosed values do
\* not add up to zero and in which a row has a return observation, the
\* weights of the period's rows add up to 1.
C1_WeightsSumToOne ==
    \A a \in DOMAIN portfolios :
        \A q \in Periods(portfolios[a]) :
            LET rows == RowsOfPeriod(portfolios[a], q)
                Value(i) == Rat(portfolios[a][i].value)
                WeightOf(i) == portfolios[a][i].weight
            IN  (/\ SumOver(Value, rows) # Rat(0)
                 /\ \E i \in rows : ~IsNaN(portfolios[a][i].price_change))
                => SumOver(WeightOf, rows) = Rat(1)

\* a period of two rows, one with a return observation and one without,
\* in a table that also holds another period
C1_Witness ==
    \E a \in DOMAIN portfolios :
        \E i, j \in DOMAIN portfolios[a] :
            /\ portfolios[a][i].quarter = portfolios[a][j].quarter
            /\ ~IsNaN(portfolios[a][i].price_change)
            /\ IsNaN(portfolios[a][j].price_change)
            /\ portfolios[a][j].value > 0
            /\ Cardinality(Periods(portfolios[a])) > 1

\* ticker t has a return observation in the price-return table
HasReturnObservation(t) ==
    \E k \in DOMAIN price_change.rows :
        price_change.rows[k].ticker = t /\ ~IsNaN(price_change.rows[k].price_change)

\* C2: create_portfolio drops a disclosure row whose ticker has no return
\* observation in the price-return table: the portfolio table it builds
\* holds no such row.
C2_UnpricedRowsDropped ==
    Returned("create_portfolio") =>
        \A i \in DOMAIN portfolios[result.arg] :
            HasReturnObservation(portfolios[result.arg][i].ticker)

\* C10: a performance table has one row per filing date of its portfolio,
\* in ascending order of sell_date; the return of its first row is
\* undefined and the return of every other row is defined.
C10_OnlySeedReturnUndefined ==
    \A a \in DOMAIN performance :
        LET t == performance[a]
        IN  /\ DOMAIN portfolios = DOMAIN performance
            /\ \A k \in 1..(Len(t) - 1) : t[k].sell_date < t[k + 1].sell_date
            /\ {t[k].sell_date : k \in DOMAIN t}
                 = {portfolios[a][i].sell_date : i \in DOMAIN portfolios[a]}
            /\ Len(t) >= 1
            /\ IsNaN(t[1].performance)
            /\ \A k \in 2..Len(t) : ~IsNaN(t[k].performance)

\* three periods, the last one without a single return observation
C10_Witness ==
    \E a \in DOMAIN performance :
        /\ Len(performance[a]) = 3
        /\ \A i \in DOMAIN portfolios[a] :
              portfolios[a][i].sell_date = performance[a][3].sell_date
                  => IsNaN(portfolios[a][i].price_change)
        /\ \E i \in DOMAIN portfolios[a] : ~IsNaN(portfolios[a][i].price_change)

\* the benchmark return merged into the row of sell_date d
BenchmarkAt(d) == NearestBenchmark(sp500_change, d)

SoleApproach == CHOOSE a \in DOMAIN performance : TRUE

\* C5: after calculate_returns with exactly one approach, in every row
\* whose portfolio return and nearest-date benchmark return are both
\* defined, outperformance = round(portfolio return - benchmark return, 2).
C5_OutperformanceRounded ==
    ((Returned("calculate_returns") \/ Returned("evaluate"))
        /\ Cardinality(DOMAIN performance) = 1) =>
        \A k \in DOMAIN comparison.rows :
            LET p == performance[SoleApproach][k].performance
                b == BenchmarkAt(performance[SoleApproach][k].sell_date)
            IN  (~IsNaN(p) /\ ~IsNaN(b)) =>
                    comparison.rows[k].outperformance = Round2(RatSub(p, b))

\* a row where rounding the difference and subtracting the rounded columns
\* disagree
C5_Witness ==
    /\ Returned("calculate_returns")
    /\ Cardinality(DOMAIN performance) = 1
    /\ \E k \in DOMAIN comparison.rows :
          LET p == performance[SoleApproach][k].performance
              b == BenchmarkAt(performance[SoleApproach][k].sell_date)
          IN  /\ ~IsNaN(p) /\ ~IsNaN(b)
              /\ Round2(RatSub(p, b)) # RatSub(Round2(p), Round2(b))

\* C6: after calculate_returns, whatever the approach names, the comparison
\* table has an outperformance column exactly when one approach is composed.
C6_OutperformanceIffOneApproach ==
    (Returned("calculate_returns") \/ Returned("evaluate")) =>
        ("outperformance" \in comparison.columns <=> Cardinality(DOMAIN performance) = 1)

\* C7: the comparison table evaluate returns is built from performance
\* tables derived from the positions and price returns that this call of
\* evaluate loaded.
C7_EvaluateRebuildsPerformance ==
    Returned("evaluate") =>
        \A a \in DOMAIN performance :
            performance[a] = PerformanceTable(PortfolioTable(positions, price_change))

\* P * (1 + r_1/100) * ... * (1 + r_k/100) down column c of the comparison
\* table, an undefined r_i counting as 0
RECURSIVE Compounded(_, _, _)
Compounded(c, k, P) ==
    IF k = 0 THEN Rat(P)
    ELSE LET r == comparison.rows[k][c]
         IN  RatMul(Compounded(c, k - 1, P),
                    IF IsNaN(r) THEN Rat(1) ELSE RatAdd(Rat(1), RatDiv(r, Rat(100))))

ReturnColumns == comparison.columns \ {"quarter", "sell_date", "outperformance"}

\* C8 as stated: the value plot_growth plots for period k of an approach or
\* benchmark column is P times the product of (1 + return/100) over the
\* periods 1..k.
C8_GrowthIsExactProduct ==
    Returned("plot_growth") =>
        \A k \in DOMAIN comparison.rows : \A c \in ReturnColumns :
            result.value.rows[k][c] = Compounded(c, k, result.arg)

GrowthIsRoundedProduct ==
    Returned("plot_growth") =>
        /\ Len(result.value.rows) = Len(comparison.rows)
        /\ \A k \in DOMAIN comparison.rows : \A c \in ReturnColumns :
              result.value.rows[k][c] = Round2(Compounded(c, k, result.arg))

\* C8 amended: the value is that product rounded to two decimals, and a
\* call of plot_growth leaves the stored comparison table as it was.
C8_GrowthIsRoundedProduct ==
    /\ []GrowthIsRoundedProduct
    /\ [][result'.call = "plot_growth" => comparison' = comparison]_vars

\* a plot with an undefined return and a value that the rounding changed
C8_Witness ==
    /\ Returned("plot_growth")
    /\ \E k \in DOMAIN comparison.rows : \E c \in ReturnColumns :
          IsNaN(comparison.rows[k][c])
    /\ \E k \in DOMAIN comparison.rows : \E c \in ReturnColumns :
          result.value.rows[k][c] # Compounded(c, k, result.arg)

\* the directory held fewer than two files, each of a filing date of its
\* own, when the last call listed it (self.quarters = len(filenames) - 1)
TooFewFilings == quarters + 1 < 2

\* C9 as stated: evaluate on a directory without snapshots, or with fewer
\* than two filing dates, raises DataIntegrityError and returns no table.
C9_RaisesDataIntegrityError ==
    (result.call = "evaluate" /\ TooFewFilings) =>
        (result.raised = "DataIntegrityError" /\ result.value = EmptyFrame)

\* C9 amended: it raises ValueError on a directory without snapshots and
\* IndexError on one with a single filing date, and returns no table.
C9_RaisesBuiltinError ==
    (result.call = "evaluate" /\ TooFewFilings) =>
        /\ result.raised = IF quarters + 1 = 0 THEN "ValueError" ELSE "IndexError"
        /\ result.value = EmptyFrame

\* evaluate has failed on a directory with a single filing
C9_Witness ==
    /\ result.call = "evaluate"
    /\ quarters + 1 = 1
    /\ result.raised = "IndexError"
    /\ positions.rows # <<>>

====
